---- MODULE Spec2Model ----
(***************************************************************************)
(* A model of astrotools' atGaussianWidth.c: the cached Gaussian filter    *)
(* (atSetFSigma), the Gaussian-weighted moments of a pixel neighbourhood   *)
(* (lgausmom), the 3x3 peak search with relocation (atFindFocMom) and the  *)
(* sigma iteration (atSigmaFind).                                          *)
(*                                                                         *)
(* Number representation.  Integers are kept within 32 bits, the width of  *)
(* the C `int` of the accumulators: every C `int` is an integer here, and  *)
(* an operation whose exact result leaves the 32-bit                       *)
(* range is computed by limbs, wraps as the two's-complement hardware does *)
(* and raises an overflow flag.  The C floating-point values are fixed     *)
(* point numbers:                                                          *)
(*   sigma                 in units of 1/SigScale  (a double in C)         *)
(*   gau, edge             in units of 2^-15       (floats in C)           *)
(*   isig2                 in units of 2^-24       (a float in C)          *)
(*   moments, dx, dy, ...  in units of 1/MomScale  (floats in C)           *)
(*   filval                an integer-valued float (a rounded int)         *)
(***************************************************************************)
EXTENDS Integers, Sequences, FiniteSets, TLC

(***************************************************************************)
(* Program constants.                                                      *)
(***************************************************************************)
SIZFIL == 50
FINDERR == 15
SIGITERAT == 10

\* resolution of the model's sigma: sigma = s / SigScale
SigScale == 10 ^ 3
\* resolution of the model's moments: 2^13
MomScale == 2 ^ 13

\* SIGGUESS 1.2, and the bound 12. of atSetFSigma, in units of 1/SigScale
SIGGUESS == 1200
SigmaMax == 12000

MaxInt == 2147483646 + 1
MinInt == -2147483647 - 1

P2(k) == 2 ^ k

Abs(a) == IF a < 0 THEN -a ELSE a
Min2(a, b) == IF a <= b THEN a ELSE b
Max2(a, b) == IF a >= b THEN a ELSE b

(***************************************************************************)
(* A C for-loop: Step(acc, i) for i = lo, ..., hi-1 in order.  It is run   *)
(* in blocks of eight iterations, each value computed (b = b) before the   *)
(* next iteration starts, which keeps the evaluation shallow.              *)
(***************************************************************************)
Loop(Step(_, _), acc0, lo, hi) ==
    LET RECURSIVE inner(_, _, _)
        RECURSIVE innerNext(_, _, _)
        RECURSIVE outer(_, _)
        RECURSIVE outerNext(_, _)
        innerNext(b, i, end) == IF b = b THEN inner(i, end, b) ELSE b
        inner(i, end, a) ==
            IF i >= end THEN a ELSE innerNext(Step(a, i), i + 1, end)
        outerNext(b, i) == IF b = b THEN outer(i, b) ELSE b
        outer(i, a) ==
            IF i >= hi THEN a
            ELSE outerNext(inner(i, Min2(i + 8, hi), a), i + 8)
    IN  outer(lo, acc0)

(***************************************************************************)
(* floor(a*b / 2^k) for 0 <= a, b < 2^30 and k >= 15, exact, by 15-bit     *)
(* limbs (the product itself need not fit in 32 bits).                     *)
(***************************************************************************)
MulShr(a, b, k) ==
    LET a1 == a \div 32768
        a0 == a % 32768
        b1 == b \div 32768
        b0 == b % 32768
        hi == a1 * b1
        m  == a1 * b0 + a0 * b1 + ((a0 * b0) \div 32768)
    IN  IF k >= 30 THEN (hi + (m \div 32768)) \div P2(k - 30)
        ELSE hi * P2(30 - k) + (m \div P2(k - 15))

(***************************************************************************)
(* exp() of libm, for the arguments atSetFSigma gives it.                  *)
(* EXPN[n+1] = floor(2^24 * e^-n).                                          *)
(***************************************************************************)
EXPN == << 16777216, 6171992, 2270549, 835288, 307285, 113043, 41586,
           15298, 5628, 2070, 761, 280, 103, 37, 13, 5, 1, 0, 0, 0, 0, 0,
           0, 0, 0 >>

\* the first 24 fractional bits of R/D (0 <= R < D), three bits a step
RECURSIVE Frac24(_, _, _, _)
Frac24(R, D, k, acc) ==
    IF k = 0 THEN acc
    ELSE Frac24((R * 8) % D, D, k - 1, acc * 8 + ((R * 8) \div D))

\* 2^24 * e^(-h/2^24) for 0 <= h < 2^23: the series 1 - h(1 - h/2(1 - h/3 ...
RECURSIVE ExpHorner(_, _, _)
ExpHorner(h, j, H) ==
    IF j = 0 THEN H
    ELSE ExpHorner(h, j - 1, P2(24) - (MulShr(h, H, 24) \div j))

\* 2^24 * e^(-x/2^24) for 0 <= x < 2^24
ExpFrac(x) ==
    LET H == ExpHorner(x \div 2, 10, P2(24))
    IN  MulShr(H, H, 24)

(***************************************************************************)
(* atSetFSigma's arithmetic, lines 139-152.  s is sigma in 1/SigScale.     *)
(***************************************************************************)
\* ncut = 4.*sigma + 1.5, truncated to int
NcutOf(s) == (4 * s + 1500) \div SigScale

\* isig2 = i*i*sig2inv = i^2 / (2 sigma^2), in units of 2^-24, capped at 63
Isig2(i, s) ==
    LET A == 500000 * i * i
        D == s * s
        n == A \div D
    IN  Min2(n, 63) * P2(24) + Frac24(A % D, D, 8, 0)

\* 512.*exp(-isig2), in units of 2^-15
Exp512(i, s) ==
    LET t == Isig2(i, s)
        n == t \div P2(24)
    IN  IF n >= 25 THEN 0 ELSE MulShr(EXPN[n + 1], ExpFrac(t % P2(24)), 24)

\* edge = 512.*exp(-ncut*ncut*sig2inv)
EdgeOf(s) == Exp512(NcutOf(s), s)

\* gau = 512.*exp(-isig2) - edge + 0.5, in units of 2^-15
Gau(i, s) == Exp512(i, s) - EdgeOf(s) + P2(14)

\* fgarray[i] = gau (float to short: truncation)
FgTap(i, s) == Gau(i, s) \div P2(15)

\* xfgarray[i] = i*gau*siginv
XfgTap(i, s) ==
    LET N == i * Gau(i, s)
    IN  ((N \div 4096) * 125 + (((N % 4096) * 125) \div 4096)) \div s

\* x2fgarray[i] = 2.*gau*isig2
X2fgTap(i, s) == MulShr(Gau(i, s), Isig2(i, s), 38)

(***************************************************************************)
(* 32-bit int arithmetic of the accumulators.  A result outside the int    *)
(* range wraps (two's complement), and the *Fits predicates say whether it *)
(* stayed inside.                                                          *)
(***************************************************************************)
AddFits(a, b) == IF b >= 0 THEN a <= MaxInt - b ELSE a >= MinInt - b

WAdd(a, b) ==
    IF AddFits(a, b) THEN a + b
    ELSE IF b >= 0 THEN (a + MinInt) + (b + MinInt)
    ELSE (a - MinInt) + (b - MinInt)

\* a * b for an int a and a filter tap 0 <= b < 2^15
MulFits(a, b) ==
    \/ b = 0
    \/ a >= 0 /\ a <= MaxInt \div b
    \/ a < 0 /\ -(a + 1) <= (MaxInt - b + 1) \div b

WMul(a, b) ==
    IF MulFits(a, b) THEN a * b
    ELSE LET lo  == a % 65536
             hi  == (a \div 65536) % 65536
             plo == lo * b
             phi == (hi * b + (plo \div 65536)) % 65536
         IN  IF phi >= 32768 THEN (phi - 65536) * 65536 + (plo % 65536)
             ELSE phi * 65536 + (plo % 65536)

\* a >> k of a signed int (arithmetic shift)
Shr(a, k) == a \div P2(k)

(***************************************************************************)
(* int to float: the nearest value with a 24-bit significand, ties to even. *)
(***************************************************************************)
RECURSIVE FloatUlp(_, _)
FloatUlp(a, u) == IF a < 16777216 * u THEN u ELSE FloatUlp(a, 2 * u)

ToFloat(n) ==
    LET a == Abs(n)
        u == FloatUlp(a, 1)
        q == a \div u
        r == a % u
        up == 2 * r > u \/ (2 * r = u /\ q % 2 = 1)
        m == IF up THEN (q + 1) * u ELSE q * u
    IN  IF n = MinInt THEN n ELSE IF n < 0 THEN -m ELSE m

(***************************************************************************)
(* Fixed point (1/MomScale) for the float moments.                         *)
(***************************************************************************)
\* magnitude at which a modelled moment saturates
MomSat == 2 ^ 6

RECURSIVE FracBits(_, _, _, _)
FracBits(r, d, k, acc) ==
    IF k = 0 THEN acc
    ELSE FracBits((2 * r) % d, d, k - 1, 2 * acc + ((2 * r) \div d))

\* num / den as a fixed point number, truncated towards zero; |den| < 2^30.
\* A float division by zero does not trap: the quotient saturates.
FxDiv(num, den) ==
    LET n == Abs(num)
        d == Abs(den)
        v == IF d = 0 \/ n \div d >= MomSat THEN MomSat * MomScale
             ELSE (n \div d) * MomScale + FracBits(n % d, d, 13, 0)
    IN  IF (num < 0) = (den < 0) THEN v ELSE -v

\* a * b / MomScale, truncated towards zero; |a| < 2^28, |b| < 2^30
FxMul(a, b) ==
    LET v == MulShr(4 * Abs(a), Abs(b), 15)
    IN  IF (a < 0) = (b < 0) THEN v ELSE -v

\* a / 2, truncated towards zero
Half(a) == IF a < 0 THEN -((-a) \div 2) ELSE a \div 2

(***************************************************************************)
(* The pixel buffers (const U16 **p, xsz, ysz), external to the program.   *)
(* An image is a record [kind, amp, bg, cx, cy, xsz, ysz] (a star or spike *)
(* is centred on column cx, row cy); Pix(img, r, c) is p[r][c].            *)
(***************************************************************************)
\* amp * exp(-r2 / (2 s0^2)) + 0.5 truncated, indexed by r2 + 1
StarTab07 == << 2000, 721, 260, 94, 34, 12, 4, 2, 1 >>
StarTab15 == << 20000, 16015, 12824, 10268, 8222, 6584, 5272, 4221, 3380,
                2707, 2167, 1735, 1390, 1113, 891, 713, 571, 457, 366, 293,
                235, 188, 151, 121, 97, 77, 62, 50, 40, 32, 25, 20, 16, 13,
                10, 8, 7, 5, 4, 3, 3, 2, 2, 1, 1, 1, 1, 1 >>

StarProfile(tab, r2) == IF r2 < Len(tab) THEN tab[r2 + 1] ELSE 0

Pix(img, r, c) ==
    LET r2 == (r - img.cy) * (r - img.cy) + (c - img.cx) * (c - img.cx)
        v  == CASE img.kind = "flat"   -> img.amp
                [] img.kind = "ramp"   -> img.amp * (r + c)
                [] img.kind = "star07" -> img.bg + StarProfile(StarTab07, r2)
                [] img.kind = "star15" -> img.bg + StarProfile(StarTab15, r2)
                [] img.kind = "spike"  -> img.bg + (IF r2 = 0 THEN img.amp ELSE 0)
    IN  Min2(v, 65535)

(***************************************************************************)
(* lgausmom (lines 182-293).  K is the cached filter as the call reads it: *)
(* [ncut, fg, xfg, x2fg].                                                  *)
(***************************************************************************)
\* rows and columns the four walking pointers address in ring i, tap k
RowP(y, i) == y + i
RowM(y, i) == y - i
ColP(x, k) == x + k
ColM(x, k) == x - k

NoReads == [none |-> TRUE, r0 |-> 0, r1 |-> 0, c0 |-> 0, c1 |-> 0]

BoxJoin(a, b) ==
    IF a.none THEN b
    ELSE IF b.none THEN a
    ELSE [none |-> FALSE, r0 |-> Min2(a.r0, b.r0), r1 |-> Max2(a.r1, b.r1),
          c0 |-> Min2(a.c0, b.c0), c1 |-> Max2(a.c1, b.c1)]

\* lines 203-204: the two early returns of lgausmom
LgEdge(y, ysz, ncut) == ncut + y > ysz \/ ncut > y + 1

\* the pixels one lgausmom evaluation reads, as a bounding box
LgReads(x, y, ysz, ncut) ==
    IF LgEdge(y, ysz, ncut) \/ ncut < 1 THEN NoReads
    ELSE [none |-> FALSE,
          r0 |-> RowM(y, ncut - 1), r1 |-> RowP(y, ncut - 1),
          c0 |-> ColM(x, ncut - 1), c1 |-> ColP(x, ncut - 1)]

\* lines 221-224, 231-237: one pass of the while loop, with the four pixels
\* read and the three taps of index ncut - n
RingStep(a, i, sky, vpp, vpm, vmp, vmm, fg, xfg, x2fg) ==
    LET psum == IF i = 0 THEN vpp + vpm - 2 * sky
                ELSE vpp + vpm + vmp + vmm - 4 * sky
        xdif == IF i = 0 THEN vpp - vpm - 2 * sky
                ELSE vpp - vpm - vmp + vmm
        t    == WMul(psum, fg)
        tx   == WMul(xdif, xfg)
        t2   == WMul(psum, x2fg)
    IN  [lsum   |-> WAdd(a.lsum, t),
         lxsum  |-> WAdd(a.lxsum, tx),
         lx2sum |-> WAdd(a.lx2sum, t2),
         ovf    |-> \/ a.ovf
                    \/ ~MulFits(psum, fg)
                    \/ ~MulFits(xdif, xfg)
                    \/ ~MulFits(psum, x2fg)
                    \/ ~AddFits(a.lsum, t)
                    \/ ~AddFits(a.lxsum, tx)
                    \/ ~AddFits(a.lx2sum, t2)]

\* lines 218, 228: lsum before the while loop
RingFirst(i, sky, vpm, vmm, fg) ==
    LET first == IF i = 0 THEN vpm - sky ELSE vpm + vmm - 2 * sky
    IN  [lsum |-> WMul(first, fg), lxsum |-> 0, lx2sum |-> 0,
         ovf |-> ~MulFits(first, fg)]

\* lines 211-240: the partial sums of ring i
RingPartials(img, x, y, sky, K, i) ==
    LET Step(a, k) ==
            RingStep(a, i, sky,
                     Pix(img, RowP(y, i), ColP(x, k)),
                     Pix(img, RowP(y, i), ColM(x, k)),
                     Pix(img, RowM(y, i), ColP(x, k)),
                     Pix(img, RowM(y, i), ColM(x, k)),
                     K.fg[k], K.xfg[k], K.x2fg[k])
    IN  Loop(Step, RingFirst(i, sky, Pix(img, RowP(y, i), x),
                             Pix(img, RowM(y, i), x), K.fg[0]),
             1, K.ncut)

\* lines 252-265: ring i's contribution to the four running totals
RingCombine(acc, part, K, i) ==
    LET big  == part.lsum > 1048575
        l    == IF big THEN Shr(part.lsum, 8) ELSE part.lsum
        lx   == IF big THEN Shr(part.lxsum, 8) ELSE part.lxsum
        lx2  == IF big THEN Shr(part.lx2sum, 8) ELSE part.lx2sum
        Prod(a, tap) == IF big THEN WMul(a, tap) ELSE Shr(WMul(a, tap), 8)
        ts   == Prod(l, K.fg[i])
        ty2  == Prod(l, K.x2fg[i])
        tx2  == Prod(lx2, K.fg[i])
        txy  == Prod(lx, K.xfg[i])
    IN  [sum   |-> WAdd(acc.sum, ts),
         y2sum |-> WAdd(acc.y2sum, ty2),
         x2sum |-> WAdd(acc.x2sum, tx2),
         xysum |-> WAdd(acc.xysum, txy),
         ovf   |-> \/ acc.ovf \/ part.ovf
                   \/ ~MulFits(l, K.fg[i]) \/ ~MulFits(l, K.x2fg[i])
                   \/ ~MulFits(lx2, K.fg[i]) \/ ~MulFits(lx, K.xfg[i])
                   \/ ~AddFits(acc.sum, ts) \/ ~AddFits(acc.y2sum, ty2)
                   \/ ~AddFits(acc.x2sum, tx2) \/ ~AddFits(acc.xysum, txy)]

\* lines 268-271
ScaleDown(t) ==
    [sum |-> Shr(t.sum, 5), x2sum |-> Shr(t.x2sum, 5),
     y2sum |-> Shr(t.y2sum, 5), xysum |-> Shr(t.xysum, 5), ovf |-> t.ovf]

\* lines 206-271: the ring loop and the final >> 5
RingSums(img, x, y, sky, K) ==
    LET Ring(acc, i) == RingCombine(acc, RingPartials(img, x, y, sky, K, i), K, i)
    IN  ScaleDown(Loop(Ring, [sum |-> 0, y2sum |-> 0, x2sum |-> 0, xysum |-> 0,
                              ovf |-> FALSE], 0, K.ncut))

\* the GAUSSMOM an evaluation leaves untouched
NoMom == [g_xmom |-> 0, g_ymom |-> 0, g_pmom |-> 0, g_mmom |-> 0, g_filval |-> 0]

\* lines 274-292, given the four sums t and the pixels read rd
LgResult(t, fsum, rd) ==
    IF fsum = 0
    THEN [st |-> -1, m |-> NoMom, ovf |-> t.ovf, rd |-> rd]
    ELSE [st |-> 0,
          m  |-> [g_xmom |-> FxDiv(2 * t.x2sum - t.sum, fsum),
                  g_ymom |-> FxDiv(2 * t.y2sum - t.sum, fsum),
                  g_pmom |-> FxDiv(t.x2sum - 2 * t.xysum + t.y2sum - t.sum, fsum),
                  g_mmom |-> FxDiv(t.x2sum + 2 * t.xysum + t.y2sum - t.sum, fsum),
                  g_filval |-> fsum],
          ovf |-> t.ovf, rd |-> rd]

\* lines 274-292
LgMoments(t, rd) == LgResult(t, ToFloat(t.sum), rd)

\* lgausmom: [st, m, ovf, rd]: the return value, the GAUSSMOM written,
\* whether an accumulator left the int range, the pixels read
lgausmom(img, x, y, sky, K) ==
    IF LgEdge(y, img.ysz, K.ncut)
    THEN [st |-> -1, m |-> NoMom, ovf |-> FALSE, rd |-> NoReads]
    ELSE LgMoments(RingSums(img, x, y, sky, K), LgReads(x, y, img.ysz, K.ncut))

(***************************************************************************)
(* The filter cache (lines 47-55) as a value:                              *)
(* [sigmagen, sig_ncut, fgarray, xfgarray, x2fgarray].                     *)
(***************************************************************************)
Taps == 0 .. SIZFIL - 1

ZeroTaps == [i \in Taps |-> 0]

\* the static initialisers of lines 47-55
Cache0 == [sigmagen |-> 0, sig_ncut |-> 0, fgarray |-> ZeroTaps,
           xfgarray |-> ZeroTaps, x2fgarray |-> ZeroTaps]

\* the filter as lgausmom reads it
KOf(c) == [ncut |-> c.sig_ncut, fg |-> c.fgarray, xfg |-> c.xfgarray,
           x2fg |-> c.x2fgarray]

(***************************************************************************)
(* atSetFSigma (lines 123-160), statement by statement.                    *)
(***************************************************************************)
\* the range test with 12 itself excluded
SigmaInvalidAt12(sigma) == sigma <= 0 \/ sigma >= SigmaMax

\* line 133
SigmaInvalid(sigma) == sigma <= 0 \/ sigma > SigmaMax

\* the shortcut taken for any filter generated before
AlreadyDoneAny(c, sigma) == c.sigmagen # 0

\* line 136
AlreadyDone(c, sigma) == sigma = c.sigmagen

\* line 137
SetSigmagen(c, sigma) == [c EXCEPT !.sigmagen = sigma]

\* line 143
SetNcut(c, sigma) == [c EXCEPT !.sig_ncut = NcutOf(sigma)]

\* lines 146-152: one iteration of the tap loop
SetTap(c, sigma, i) ==
    LET x2 == X2fgTap(i, sigma)
    IN  [c EXCEPT !.fgarray[i] = FgTap(i, sigma),
                  !.xfgarray[i] = XfgTap(i, sigma),
                  !.x2fgarray[i] = x2,
                  !.sig_ncut = IF x2 = 0 /\ i # 0 THEN i ELSE @]

\* line 154: one iteration of the zeroing loop
ZeroTap(c, i) == [c EXCEPT !.fgarray[i] = 0]

\* lines 137-154: the recomputation
GenerateFilter(c, sigma) ==
    LET Tap(a, i) == SetTap(a, sigma, i)
        c1 == SetNcut(SetSigmagen(c, sigma), sigma)
        c2 == Loop(Tap, c1, 0, NcutOf(sigma))
    IN  Loop(ZeroTap, c2, NcutOf(sigma), SIZFIL)

\* the whole call: [ret, c, recomputed]
atSetFSigma(c, sigma) ==
    IF SigmaInvalid(sigma) THEN [ret |-> -1, c |-> c, recomputed |-> FALSE]
    ELSE IF AlreadyDone(c, sigma) THEN [ret |-> 0, c |-> c, recomputed |-> FALSE]
    ELSE [ret |-> 0, c |-> GenerateFilter(c, sigma), recomputed |-> TRUE]

(***************************************************************************)
(* atFindFocMom (lines 344-493).  One attempt is the code from the label   *)
(* `start` to the next `goto start` or return.                             *)
(***************************************************************************)
\* the retry test one relocation late
RetryLimitAbove(ret) == ret > FINDERR

\* line 389
RetryLimit(ret) == ret >= FINDERR

\* the edge test one pixel too permissive on every side
FfmEdgeOffByOne(img, x, y, ncut) ==
    \/ x < ncut - 1 \/ y < ncut - 1
    \/ x > img.xsz - ncut \/ y > img.ysz - ncut

\* lines 394-395
FfmEdge(img, x, y, ncut) ==
    \/ x < ncut \/ y < ncut
    \/ x > img.xsz - ncut - 1 \/ y > img.ysz - ncut - 1

\* lines 402-406: the (i, j) of the eight neighbours, in the loops' order
ScanOrder == << <<0, 0>>, <<0, 1>>, <<0, 2>>, <<1, 0>>, <<1, 2>>,
                <<2, 0>>, <<2, 1>>, <<2, 2>> >>

\* the GAUSSMOM *ps of a caller before anything is written to it
PsUnset == [written |-> FALSE, g_xf |-> 0, g_yf |-> 0, g_xmom |-> 0,
            g_ymom |-> 0, g_pmom |-> 0, g_mmom |-> 0, g_filval |-> 0]

\* lines 430, 435, 440, 445: the second differences of filval
D2(val, a, b) ==
    ToFloat(2 * val[1][1].g_filval - val[a[1]][a[2]].g_filval
              - val[b[1]][b[2]].g_filval)

\* the four tests with EPS taken as negative: a zero d2 passes
FlatPeakBelowZero(val) ==
    \/ D2(val, <<1, 2>>, <<1, 0>>) < 0
    \/ D2(val, <<2, 1>>, <<0, 1>>) < 0
    \/ D2(val, <<2, 2>>, <<0, 0>>) < 0
    \/ D2(val, <<2, 0>>, <<0, 2>>) < 0

\* lines 431, 436, 441, 446: d2 < EPS for an integer-valued d2
FlatPeak(val) ==
    \/ D2(val, <<1, 2>>, <<1, 0>>) <= 0
    \/ D2(val, <<2, 1>>, <<0, 1>>) <= 0
    \/ D2(val, <<2, 2>>, <<0, 0>>) <= 0
    \/ D2(val, <<2, 0>>, <<0, 2>>) <= 0

\* lines 432-433 and the like: s/d2 = 0.5 (v+ - v-) / d2
Shift(val, a, b) ==
    FxDiv(ToFloat(val[a[1]][a[2]].g_filval - val[b[1]][b[2]].g_filval),
          2 * D2(val, a, b))

\* lines 467-490: a moment interpolated along two axes (a1, b1), (a2, b2)
InterpMom(val, fld, a1, b1, d1, a2, b2, d2) ==
    LET c    == val[1][1][fld]
        m(q) == val[q[1]][q[2]][fld]
    IN  c + Half(FxMul(m(a1) - m(b1), d1)) + Half(FxMul(m(a2) - m(b2), d2))
          - Half(FxMul(FxMul(d1, d1), 2 * c - m(a1) - m(b1))
                 + FxMul(FxMul(d2, d2), 2 * c - m(a2) - m(b2)))

\* lines 450-490: what a successful attempt writes to *ps
Interpolate(val, x, y) ==
    LET xp == <<1, 2>>
        xm == <<1, 0>>
        yp == <<2, 1>>
        ym == <<0, 1>>
        pp == <<2, 2>>
        pm == <<0, 0>>
        mp == <<2, 0>>
        mm == <<0, 2>>
        dx == Shift(val, xp, xm)
        dy == Shift(val, yp, ym)
        dp == Shift(val, pp, pm)
        dm == Shift(val, mp, mm)
        v0 == val[1][1].g_filval
                + (FxMul(ToFloat(val[1][2].g_filval - val[1][0].g_filval), dx)
                   + FxMul(ToFloat(val[2][1].g_filval - val[0][1].g_filval), dy)) \div 4
    IN  [written  |-> TRUE,
         g_xf     |-> x * MomScale + dx + MomScale \div 2,
         g_yf     |-> y * MomScale + dy + MomScale \div 2,
         g_filval |-> v0 \div 32,
         g_xmom   |-> InterpMom(val, "g_xmom", xp, xm, dx, yp, ym, dy),
         g_ymom   |-> InterpMom(val, "g_ymom", xp, xm, dx, yp, ym, dy),
         g_pmom   |-> InterpMom(val, "g_pmom", pp, pm, dp, mp, mm, dm),
         g_mmom   |-> InterpMom(val, "g_mmom", pp, pm, dp, mp, mm, dm)]

\* the comparison of line 409 with >= for >
ExceedsOrEquals(v, vc) == v >= vc

\* the neighbour's filval exceeds the centre's (line 409)
Exceeds(v, vc) == v > vc

(***************************************************************************)
(* One attempt, entered with (x0, y0, ret0):                               *)
(* [out, status, x, y, ret, ps, rd, ovf, vc, vnew, evals, nb, x0, y0,      *)
(* ret0].  out is "limit" (line 389), "edge" (396), "lgerr" (399, 407),    *)
(* "move" (409-417), "flat" (431-446) or "ok" (492); rd is the pixels      *)
(* read, ovf whether an accumulator left the int range, evals the number   *)
(* of lgausmom calls, vc the centre's filval, nb the neighbours' filval in *)
(* the order evaluated, vnew the filval of the neighbour moved to.         *)
(***************************************************************************)
\* lines 402-427: the neighbours evaluated in the loops' order, up to and
\* including the first that fails or exceeds the centre
RECURSIVE Scan(_, _, _, _, _, _, _)
Scan(img, x, y, sky, K, vc, got) ==
    IF Len(got) = 8 THEN got
    ELSE LET ij == ScanOrder[Len(got) + 1]
             e  == lgausmom(img, x + ij[2] - 1, y + ij[1] - 1, sky, K)
         IN  IF e.st < 0 \/ Exceeds(e.m.g_filval, vc) THEN Append(got, e)
             ELSE Scan(img, x, y, sky, K, vc, Append(got, e))

\* the pixels read by the first n evaluations of got
RECURSIVE ScanReads(_, _)
ScanReads(got, n) ==
    IF n = 0 THEN NoReads ELSE BoxJoin(ScanReads(got, n - 1), got[n].rd)

\* val[i][j] once all nine evaluations are in
ValGrid(C, got) ==
    [i \in 0 .. 2 |-> [j \in 0 .. 2 |->
        IF i = 1 /\ j = 1 THEN C.m
        ELSE got[CHOOSE n \in 1 .. 8 : ScanOrder[n] = <<i, j>>].m]]

\* lines 399-492, given the centre's evaluation C
AttemptAt(base, C, got) ==
    LET vc   == C.m.g_filval
        last == got[Len(got)]
        seen == [base EXCEPT !.rd = BoxJoin(C.rd, ScanReads(got, Len(got))),
                             !.ovf = C.ovf \/ \E n \in 1 .. Len(got) : got[n].ovf,
                             !.vc = vc, !.evals = 1 + Len(got),
                             !.nb = [n \in 1 .. Len(got) |-> got[n].m.g_filval]]
    IN  IF last.st < 0 THEN [seen EXCEPT !.out = "lgerr", !.status = -2]
        ELSE IF Exceeds(last.m.g_filval, vc)
             THEN [seen EXCEPT !.out = "move", !.ret = base.ret + 1,
                               !.x = base.x + ScanOrder[Len(got)][2] - 1,
                               !.y = base.y + ScanOrder[Len(got)][1] - 1,
                               !.vnew = last.m.g_filval]
        ELSE IF FlatPeak(ValGrid(C, got)) THEN [seen EXCEPT !.out = "flat", !.status = -3]
        ELSE [seen EXCEPT !.status = base.ret,
                          !.ps = Interpolate(ValGrid(C, got), base.x, base.y)]

\* lines 399-492
AttemptIn(base, img, sky, K, C) ==
    IF C.st < 0
    THEN [base EXCEPT !.out = "lgerr", !.status = -2, !.rd = C.rd,
                      !.ovf = C.ovf, !.evals = 1]
    ELSE AttemptAt(base, C, Scan(img, base.x, base.y, sky, K, C.m.g_filval, <<>>))

Attempt(img, x, y, sky, ncut, ret, ps, c) ==
    LET base == [out |-> "ok", status |-> 0, x |-> x, y |-> y, ret |-> ret,
                 ps |-> ps, rd |-> NoReads, ovf |-> FALSE, vc |-> 0,
                 vnew |-> 0, evals |-> 0, nb |-> <<>>,
                 x0 |-> x, y0 |-> y, ret0 |-> ret]
    IN  IF RetryLimit(ret) THEN [base EXCEPT !.out = "limit", !.status = -1]
        ELSE IF FfmEdge(img, x, y, ncut) THEN [base EXCEPT !.out = "edge", !.status = -1]
        ELSE AttemptIn(base, img, sky, KOf(c), lgausmom(img, x, y, sky, KOf(c)))

(***************************************************************************)
(* atSigmaFind (lines 540-578).                                            *)
(***************************************************************************)
\* floor(sqrt(n)) for 0 <= n <= MaxInt
RECURSIVE ISqrtIn(_, _, _)
ISqrtIn(n, lo, hi) ==
    IF lo >= hi THEN lo
    ELSE LET mid == (lo + hi + 1) \div 2
         IN  IF mid * mid <= n THEN ISqrtIn(n, mid, hi) ELSE ISqrtIn(n, lo, mid - 1)

ISqrt(n) == ISqrtIn(n, 0, 46340)

\* floor(num * 2^(2h) / den) for 0 < num, den < 2^15 and num/den < 2^(31-2h)
Ratio(num, den, h) ==
    LET q  == num \div den
        r  == num % den
        d1 == (r * P2(h)) \div den
        r1 == (r * P2(h)) % den
        d2 == (r1 * P2(h)) \div den
    IN  q * P2(2 * h) + d1 * P2(h) + d2

\* line 573: *sig *= sqrt((2.+mom)/(2-mom)), for -2 < mom < 2
SigUpdate(sig, mom) ==
    LET num == 2 * MomScale + mom
        den == 2 * MomScale - mom
        h   == IF num < 4 * den THEN 14 ELSE IF num < 1024 * den THEN 10 ELSE 6
    IN  (sig * ISqrt(Ratio(num, den, h))) \div P2(h)

\* the range test without its end points
MomentOutOpen(m) == m < -MomScale \/ m > MomScale

\* lines 567-570
MomentOut(m) == m <= -MomScale \/ m >= MomScale

OutOfRange(ps) ==
    \/ MomentOut(ps.g_xmom) \/ MomentOut(ps.g_ymom)
    \/ MomentOut(ps.g_pmom) \/ MomentOut(ps.g_mmom)

\* line 571: fabs(mom) < SIGERR
MomConverged(mom) == 100 * Abs(mom) < MomScale

\* the test of line 574 without its factor 2
SigConvergedWide(sigold, sig) == 100 * Abs(sigold - sig) < SigScale

\* line 574: 2.*fabs(sigold-*sig) < SIGERR
SigConverged(sigold, sig) == 200 * Abs(sigold - sig) < SigScale

\* lines 564-577 after atFindFocMom returned err in iteration i:
\* [done, status, sig, i, conv]; conv names the break taken, if any
AfterFind(err, ps, sig, sigold, i) ==
    LET mom  == ps.g_xmom + ps.g_ymom
        nsig == SigUpdate(sig, mom)
        r    == [done |-> TRUE, status |-> 0, sig |-> sig, i |-> i, conv |-> "none"]
    IN  IF err < 0 THEN [r EXCEPT !.status = err - 3]
        ELSE IF OutOfRange(ps) THEN [r EXCEPT !.status = -2]
        ELSE IF MomConverged(mom) THEN [r EXCEPT !.conv = "mom"]
        ELSE IF SigConverged(sigold, nsig) THEN [r EXCEPT !.sig = nsig, !.conv = "sig"]
        ELSE IF i + 1 = SIGITERAT THEN [r EXCEPT !.status = -3, !.sig = nsig, !.i = i + 1]
        ELSE [r EXCEPT !.done = FALSE, !.sig = nsig, !.i = i + 1]

(***************************************************************************)
(* The program state: the filter cache and, for each thread of control, the *)
(* frame of the call it is in.                                             *)
(***************************************************************************)
VARIABLES sigmagen, sig_ncut, fgarray, xfgarray, x2fgarray, fr, serial, calls

cachevars == <<sigmagen, sig_ncut, fgarray, xfgarray, x2fgarray>>
vars == <<sigmagen, sig_ncut, fgarray, xfgarray, x2fgarray, fr, serial, calls>>

Threads == {1, 2}

Cache == [sigmagen |-> sigmagen, sig_ncut |-> sig_ncut, fgarray |-> fgarray,
          xfgarray |-> xfgarray, x2fgarray |-> x2fgarray]

SetCache(c) ==
    /\ sigmagen' = c.sigmagen
    /\ sig_ncut' = c.sig_ncut
    /\ fgarray' = c.fgarray
    /\ xfgarray' = c.xfgarray
    /\ x2fgarray' = c.x2fgarray

NoImage == [kind |-> "flat", amp |-> 0, bg |-> 0, cx |-> 0, cy |-> 0,
            xsz |-> 0, ysz |-> 0]

NoAttempt == [out |-> "none", status |-> 0, x |-> 0, y |-> 0, ret |-> 0,
              ps |-> PsUnset, rd |-> NoReads, ovf |-> FALSE, vc |-> 0,
              vnew |-> 0, evals |-> 0, nb |-> <<>>, x0 |-> 0, y0 |-> 0,
              ret0 |-> 0]

(***************************************************************************)
(* A frame.  pc is the position in the code; op the function called from   *)
(* outside and status its return value once pc = "done".                   *)
(*   atSetFSigma:  sigma (argument), ln (ncut), ti (i)                     *)
(*   atFindFocMom: img, sky, fx, fy (its x, y), ncut, ret, ps              *)
(*   atSigmaFind:  img, x, y, sky, ps, sig (for *sig), sigold, i, err      *)
(* The remaining fields record what happened, for the properties:          *)
(*   recomputed, shortcut  how the last atSetFSigma ended                  *)
(*   complete   whether the cache held sigma's filter when it returned 0   *)
(*   att        the last attempt of atFindFocMom                           *)
(*   attempts   attempts that evaluated the 3x3 grid, moves relocations    *)
(*   rd, ovf    pixels read / accumulator overflow, over the whole call    *)
(*   nset, nfind  calls of atSetFSigma and atFindFocMom by atSigmaFind     *)
(*   kgen, ksig   sigmagen and *sig at the last attempt; conv the break    *)
(***************************************************************************)
Frame0 == [pc |-> "idle", op |-> "none", caller |-> "none", status |-> 0,
           sigma |-> 0, ln |-> 0, ti |-> 0,
           img |-> NoImage, x |-> 0, y |-> 0, sky |-> 0,
           fx |-> 0, fy |-> 0, ncut |-> 0, ret |-> 0, ps |-> PsUnset,
           sig |-> 0, sigold |-> 0, i |-> 0, err |-> 0,
           recomputed |-> FALSE, shortcut |-> FALSE, complete |-> TRUE,
           att |-> NoAttempt, attempts |-> 0, moves |-> 0,
           rd |-> NoReads, ovf |-> FALSE, nset |-> 0, nfind |-> 0,
           kgen |-> 0, ksig |-> 0, conv |-> "none"]

Init ==
    /\ sigmagen = Cache0.sigmagen
    /\ sig_ncut = Cache0.sig_ncut
    /\ fgarray = Cache0.fgarray
    /\ xfgarray = Cache0.xfgarray
    /\ x2fgarray = Cache0.x2fgarray
    /\ fr = [t \in Threads |-> Frame0]
    /\ serial = TRUE
    /\ calls = 0

\* with two callers, the environment may or may not serialize them
InitConc ==
    /\ sigmagen = Cache0.sigmagen
    /\ sig_ncut = Cache0.sig_ncut
    /\ fgarray = Cache0.fgarray
    /\ xfgarray = Cache0.xfgarray
    /\ x2fgarray = Cache0.x2fgarray
    /\ fr = [t \in Threads |-> Frame0]
    /\ serial \in BOOLEAN
    /\ calls = 0

\* a serialized caller runs only while no other call is in progress
CanRun(t) ==
    serial => \A o \in Threads \ {t} : fr[o].pc \in {"idle", "done"}

\* a new call may start: the thread is outside any call, within the budget
CanCall(t, max) == fr[t].pc = "idle" /\ calls < max /\ CanRun(t)

\* the cache holds the filter of sigma: lines 137-154 run for sigma would
\* write nothing new
KernelFor(c, sigma) == GenerateFilter(c, sigma) = c

(***************************************************************************)
(* A call of atSetFSigma(s) from outside, as one step.                     *)
(***************************************************************************)
\* the statics and the caller's frame once the call has returned r
SetFSigmaDone(t, s, r) ==
    /\ SetCache(r.c)
    /\ fr' = [fr EXCEPT ![t] =
                [Frame0 EXCEPT !.pc = "done", !.op = "atSetFSigma",
                               !.sigma = s, !.status = r.ret,
                               !.recomputed = r.recomputed,
                               !.shortcut = r.ret = 0 /\ ~r.recomputed]]

SetFSigmaCall(t, s, max) ==
    /\ CanCall(t, max)
    /\ SetFSigmaDone(t, s, atSetFSigma(Cache, s))
    /\ calls' = calls + 1
    /\ UNCHANGED serial

\* the caller takes the result; the frame is popped
Return(t) ==
    /\ fr[t].pc = "done"
    /\ CanRun(t)
    /\ fr' = [fr EXCEPT ![t] = Frame0]
    /\ UNCHANGED <<cachevars, serial, calls>>

(***************************************************************************)
(* atFindFocMom: the call (lines 344-385) and one attempt (387-492).       *)
(***************************************************************************)
FindFocMomCall(t, in, max) ==
    /\ CanCall(t, max)
    /\ sigmagen # 0
    /\ fr' = [fr EXCEPT ![t] =
                [Frame0 EXCEPT !.pc = "start", !.op = "atFindFocMom",
                               !.caller = "top", !.img = in.img, !.sky = in.sky,
                               !.x = in.x, !.y = in.y,
                               !.fx = in.x, !.fy = in.y,
                               !.ncut = sig_ncut, !.ret = 0]]
    /\ calls' = calls + 1
    /\ UNCHANGED <<cachevars, serial>>

\* the frame after attempt a: back at `start` after a relocation, otherwise
\* returned, to the outside or into atSigmaFind (err)
AfterAttempt(f, gen, a) ==
    [f EXCEPT !.fx = a.x, !.fy = a.y, !.ret = a.ret, !.ps = a.ps,
              !.att = a,
              !.attempts = IF a.evals > 0 THEN @ + 1 ELSE @,
              !.moves = IF a.out = "move" THEN @ + 1 ELSE @,
              !.rd = BoxJoin(@, a.rd),
              !.ovf = @ \/ a.ovf,
              !.kgen = gen, !.ksig = f.sig,
              !.err = IF a.out = "move" THEN @ ELSE a.status,
              !.status = IF a.out # "move" /\ f.caller = "top" THEN a.status ELSE @,
              !.pc = IF a.out = "move" THEN "start"
                     ELSE IF f.caller = "top" THEN "done"
                     ELSE "sfafter"]

FfmAttempt(t) ==
    /\ fr[t].pc = "start"
    /\ CanRun(t)
    /\ fr' = [fr EXCEPT ![t] =
                AfterAttempt(fr[t], sigmagen,
                             Attempt(fr[t].img, fr[t].fx, fr[t].fy, fr[t].sky,
                                     fr[t].ncut, fr[t].ret, fr[t].ps, Cache))]
    /\ UNCHANGED <<cachevars, serial, calls>>

(***************************************************************************)
(* atSigmaFind: the call (line 556), and per iteration the call of         *)
(* atSetFSigma (561-562), the call of atFindFocMom (563) and the rest of   *)
(* the loop body with the loop's exits (564-577).                          *)
(***************************************************************************)
SigmaFindCall(t, in, max) ==
    /\ CanCall(t, max)
    /\ fr' = [fr EXCEPT ![t] =
                [Frame0 EXCEPT !.pc = "sfset", !.op = "atSigmaFind",
                               !.img = in.img, !.sky = in.sky,
                               !.x = in.x, !.y = in.y,
                               !.sig = IF in.sig < 0 THEN SIGGUESS ELSE in.sig,
                               !.i = 0]]
    /\ calls' = calls + 1
    /\ UNCHANGED <<cachevars, serial>>

\* lines 561-562, atSetFSigma having returned r
SfSetDone(t, f, r) ==
    /\ SetCache(r.c)
    /\ fr' = [fr EXCEPT ![t] =
                IF r.ret < 0
                THEN [f EXCEPT !.pc = "done", !.status = -1, !.nset = @ + 1]
                ELSE [f EXCEPT !.pc = "sffind", !.sigold = f.sig,
                               !.nset = @ + 1,
                               !.recomputed = r.recomputed]]

SfSet(t) ==
    /\ fr[t].pc = "sfset"
    /\ CanRun(t)
    /\ SfSetDone(t, fr[t], atSetFSigma(Cache, fr[t].sig))
    /\ UNCHANGED <<serial, calls>>

SfFind(t) ==
    /\ fr[t].pc = "sffind"
    /\ CanRun(t)
    /\ LET f == fr[t]
       IN  fr' = [fr EXCEPT ![t] =
                    [f EXCEPT !.pc = "start", !.caller = "sf",
                              !.fx = f.x, !.fy = f.y,
                              !.ncut = sig_ncut, !.ret = 0,
                              !.att = NoAttempt, !.attempts = 0, !.moves = 0,
                              !.nfind = @ + 1]]
    /\ UNCHANGED <<cachevars, serial, calls>>

\* the frame after lines 564-577 gave r
SfAfterDone(f, r) ==
    [f EXCEPT !.sig = r.sig, !.i = r.i, !.conv = r.conv,
              !.status = IF r.done THEN r.status ELSE @,
              !.pc = IF r.done THEN "done" ELSE "sfset"]

SfAfter(t) ==
    /\ fr[t].pc = "sfafter"
    /\ CanRun(t)
    /\ fr' = [fr EXCEPT ![t] =
                SfAfterDone(fr[t], AfterFind(fr[t].err, fr[t].ps, fr[t].sig,
                                             fr[t].sigold, fr[t].i))]
    /\ UNCHANGED <<cachevars, serial, calls>>

(***************************************************************************)
(* atSetFSigma statement by statement, for callers that run concurrently.  *)
(***************************************************************************)
\* the call
SetEnter(t, s, max) ==
    /\ CanCall(t, max)
    /\ fr' = [fr EXCEPT ![t] =
                [Frame0 EXCEPT !.pc = "s133", !.op = "atSetFSigma", !.sigma = s]]
    /\ calls' = calls + 1
    /\ UNCHANGED <<cachevars, serial>>

\* lines 133-136: the two early returns
SetCheck(t) ==
    /\ fr[t].pc = "s133"
    /\ CanRun(t)
    /\ LET f == fr[t]
       IN  fr' = [fr EXCEPT ![t] =
                    IF SigmaInvalid(f.sigma)
                    THEN [f EXCEPT !.pc = "done", !.status = -1]
                    ELSE IF AlreadyDone(Cache, f.sigma)
                    THEN [f EXCEPT !.pc = "done", !.status = 0, !.shortcut = TRUE,
                                   !.complete = KernelFor(Cache, f.sigma)]
                    ELSE [f EXCEPT !.pc = "s137"]]
    /\ UNCHANGED <<cachevars, serial, calls>>

\* line 137
SetSigma(t) ==
    /\ fr[t].pc = "s137"
    /\ CanRun(t)
    /\ SetCache(SetSigmagen(Cache, fr[t].sigma))
    /\ fr' = [fr EXCEPT ![t].pc = "s139"]
    /\ UNCHANGED <<serial, calls>>

\* lines 139-145: ncut, sig_ncut = ncut, i = 0
SetLength(t) ==
    /\ fr[t].pc = "s139"
    /\ CanRun(t)
    /\ SetCache(SetNcut(Cache, fr[t].sigma))
    /\ fr' = [fr EXCEPT ![t].pc = "s145", ![t].ln = NcutOf(fr[t].sigma),
                        ![t].ti = 0]
    /\ UNCHANGED <<serial, calls>>

\* lines 145-153: the tap loop, one iteration or its exit
SetTapStep(t) ==
    /\ fr[t].pc = "s145"
    /\ CanRun(t)
    /\ LET f == fr[t]
       IN  IF f.ti < f.ln
           THEN /\ SetCache(SetTap(Cache, f.sigma, f.ti))
                /\ fr' = [fr EXCEPT ![t].ti = f.ti + 1]
           ELSE /\ UNCHANGED cachevars
                /\ fr' = [fr EXCEPT ![t].pc = "s154"]
    /\ UNCHANGED <<serial, calls>>

\* the statics and the frame after line 154 left the cache c
SetZeroDone(t, f, c) ==
    /\ SetCache(c)
    /\ fr' = [fr EXCEPT ![t] =
                [f EXCEPT !.pc = "done", !.status = 0, !.recomputed = TRUE,
                          !.complete = KernelFor(c, f.sigma)]]

\* lines 154-159: the zeroing loop and the return
SetZero(t) ==
    /\ fr[t].pc = "s154"
    /\ CanRun(t)
    /\ SetZeroDone(t, fr[t], Loop(ZeroTap, Cache, fr[t].ln, SIZFIL))
    /\ UNCHANGED <<serial, calls>>

(***************************************************************************)
(* The filter generator alone: a caller makes up to MaxSetCalls calls of   *)
(* atSetFSigma, with sigma below, at, inside and above the accepted range. *)
(***************************************************************************)
MaxSetCalls == 3

Sigmas == {-500, 0, 125, 1000, 1200, 2000, 12000, 12001}

FilterCall == \E s \in Sigmas : SetFSigmaCall(1, s, MaxSetCalls)

NextFilter == FilterCall \/ Return(1)

SpecFilter == Init /\ [][NextFilter]_vars

\* a call of atSetFSigma by t has just returned
SetReturned(t) ==
    fr[t].pc = "idle" /\ fr'[t].pc = "done" /\ fr'[t].op = "atSetFSigma"

C9_TailsZero ==
    \A i \in Taps :
      i >= sig_ncut => fgarray[i] = 0 /\ xfgarray[i] = 0 /\ x2fgarray[i] = 0

(***************************************************************************)
(* The peak locator: a caller generates a filter and calls atFindFocMom on *)
(* an XSize x YSize image, up to MaxFindCalls calls in all.                *)
(***************************************************************************)
MaxFindCalls == 2

XSize == 40
YSize == 36

Image(kind, amp, bg) ==
    [kind |-> kind, amp |-> amp, bg |-> bg, cx |-> 20, cy |-> 18,
     xsz |-> XSize, ysz |-> YSize]

Flat(c) == Image("flat", c, 0)
Ramp == Image("ramp", 10, 0)
Star15 == Image("star15", 0, 100)
Star07 == Image("star07", 0, 100)

FindImages == {Flat(0), Flat(1000), Flat(65535), Ramp, Star15, Star07}

\* sigma with ncut = 1, 5, 6, 49
FindSigmas == {100, 1000, 1200, 12000}

\* for ncut = 5: the innermost-but-one and outermost accepted pixels of each
\* side, interior pixels near the stars' centre, and a pixel near the right
\* edge
FindPositions ==
    {<<5, 5>>, <<XSize - 6, YSize - 6>>,
     <<4, 18>>, <<XSize - 5, 18>>, <<20, 4>>, <<20, YSize - 5>>,
     <<20, 18>>, <<18, 16>>, <<XSize - 8, 18>>}

FindSkies == {0, 1000, 4000}

FindInputs ==
    {[img |-> im, x |-> p[1], y |-> p[2], sky |-> sk] :
        im \in FindImages, p \in FindPositions, sk \in FindSkies}

FindSetCall == \E s \in FindSigmas : SetFSigmaCall(1, s, MaxFindCalls)

FindCall == \E in \in FindInputs : FindFocMomCall(1, in, MaxFindCalls)

NextFind == FindSetCall \/ FindCall \/ FfmAttempt(1) \/ Return(1)

SpecFind == Init /\ [][NextFind]_vars

\* (x, y) is less than n pixels from one of the four edges of img
NearEdge(img, x, y, n) ==
    \/ x < n \/ y < n
    \/ img.xsz - 1 - x < n \/ img.ysz - 1 - y < n

\* every pixel of the box rd lies inside img
InsideImage(rd, img) ==
    rd.none \/ (/\ 0 <= rd.r0 /\ rd.r1 < img.ysz
                /\ 0 <= rd.c0 /\ rd.c1 < img.xsz)

\* thread t is in atFindFocMom, called from outside, and has returned
FindReturned(t) ==
    fr[t].pc = "done" /\ fr[t].op = "atFindFocMom"

\* the call of t was made on a buffer of equal samples, at least ncut pixels
\* from every edge
FlatCase(t) ==
    /\ FindReturned(t)
    /\ fr[t].img.kind = "flat"
    /\ ~NearEdge(fr[t].img, fr[t].x, fr[t].y, fr[t].ncut)

(***************************************************************************)
(* C3 as stated: on a buffer of equal samples, whatever the sample value   *)
(* and the sky (sky equal to the sample value included), atFindFocMom      *)
(* called at least ncut pixels from every edge returns -3 and writes no    *)
(* coordinates.                                                            *)
(***************************************************************************)
C3_FlatReturnsFlatPeak ==
    \A t \in Threads :
      FlatCase(t) => fr[t].status = -3 /\ ~fr[t].ps.written

(***************************************************************************)
(* C3 amended: on a buffer of equal samples atFindFocMom, called at least  *)
(* ncut pixels from every edge, returns a negative status and writes no    *)
(* coordinates: -2 (lgausmom found a zero sum) when the sky equals the     *)
(* sample value, and -3 when it differs and no accumulator left the int    *)
(* range; -2 is returned only for a failed centre evaluation.              *)
(***************************************************************************)
C3_FlatNeverLocates ==
    \A t \in Threads :
      FlatCase(t) =>
        /\ fr[t].status \in {-2, -3}
        /\ ~fr[t].ps.written
        /\ fr[t].moves = 0
        /\ fr[t].sky = fr[t].img.amp => fr[t].status = -2
        /\ fr[t].sky # fr[t].img.amp /\ ~fr[t].ovf => fr[t].status = -3
        /\ fr[t].status = -2 => fr[t].att.out = "lgerr" /\ fr[t].att.evals = 1

\* C3's cases: a flat buffer with sky equal to the samples, answered -2
C3_Witness ==
    /\ FlatCase(1)
    /\ fr[1].img.amp = 1000 /\ fr[1].sky = 1000
    /\ fr[1].status = -2

(***************************************************************************)
(* C4: at every attempt of atFindFocMom, the first and each one after a    *)
(* relocation, a centre less than ncut pixels from an edge makes the call  *)
(* return -1 before any pixel is read; every pixel read by the lgausmom    *)
(* evaluations of an attempt, and of the whole call, lies inside the       *)
(* buffer, for ncut from 1 to 49.                                          *)
(***************************************************************************)
C4_EdgeBeforeRead ==
    \A t \in Threads :
      LET f == fr[t]
          a == f.att
      IN  a.out # "none" =>
            /\ f.ncut \in 1 .. 49
            /\ NearEdge(f.img, a.x0, a.y0, f.ncut) =>
                  /\ a.status = -1 /\ a.out \in {"edge", "limit"}
                  /\ a.evals = 0 /\ a.rd.none
                  /\ f.caller = "top" => f.pc = "done" /\ f.status = -1
            /\ a.out = "edge" => NearEdge(f.img, a.x0, a.y0, f.ncut)
            /\ InsideImage(a.rd, f.img)
            /\ InsideImage(f.rd, f.img)

\* C4's case: after a relocation the centre is too close to the right edge;
\* the attempts before it read up to the last column
C4_Witness ==
    /\ FindReturned(1)
    /\ fr[1].att.out = "edge" /\ fr[1].moves > 0 /\ fr[1].status = -1
    /\ ~fr[1].rd.none /\ fr[1].rd.c1 = fr[1].img.xsz - 1

(***************************************************************************)
(* C8 as stated: in lgausmom no per-ring partial, no product with a filter *)
(* tap and no running total leaves the signed 32-bit range, for every      *)
(* filter of atSetFSigma, every buffer of 16-bit samples and every sky.    *)
(***************************************************************************)
C8_NoWrap == \A t \in Threads : ~fr[t].ovf

(***************************************************************************)
(* C10: a relocation moves the centre by one pixel, in x, y or both, to a  *)
(* neighbour whose filval is strictly greater than the centre's and adds   *)
(* one to the retry counter; a call makes at most 15 attempts that         *)
(* evaluate the 3x3 grid; a non-negative return value is the number of     *)
(* relocations, between 0 and 14, and then no neighbour of the final       *)
(* centre has a filval greater than the centre's.  (C10_Attempts is the    *)
(* part about states, C10_Relocation adds the part about steps.)           *)
(***************************************************************************)
C10_Attempts ==
    \A t \in Threads :
      LET f == fr[t]
          a == f.att
      IN  /\ a.out = "move" =>
                /\ Abs(a.x - a.x0) <= 1 /\ Abs(a.y - a.y0) <= 1
                /\ <<a.x, a.y>> # <<a.x0, a.y0>>
                /\ a.vnew > a.vc
                /\ a.ret = a.ret0 + 1
          /\ f.attempts <= FINDERR
          /\ f.moves <= FINDERR
          /\ f.pc = "start" => f.ret = f.moves
          /\ a.out = "limit" => a.ret0 = FINDERR /\ a.evals = 0
          /\ FindReturned(t) /\ f.status >= 0 =>
                /\ f.status = f.moves /\ f.status <= FINDERR - 1
                /\ a.out = "ok" /\ f.ps.written
                /\ Len(a.nb) = 8
                /\ \A n \in 1 .. 8 : a.nb[n] <= a.vc

\* every step of a call in progress returns or relocates, and the counter
\* of relocations is bounded: the call ends within 16 steps
C10_Relocation ==
    /\ []C10_Attempts
    /\ [][\A t \in Threads :
            fr[t].pc = "start" /\ fr'[t] # fr[t] =>
              \/ fr'[t].pc = "done"
              \/ /\ fr'[t].pc = "start"
                 /\ fr'[t].ret = fr[t].ret + 1
                 /\ fr'[t].ret <= FINDERR]_vars

\* C10's case: a call that returned its count of relocations, more than one
C10_Witness ==
    /\ FindReturned(1)
    /\ fr[1].status >= 2 /\ fr[1].status = fr[1].moves
    /\ fr[1].att.out = "ok"

(***************************************************************************)
(* The width solver: a caller makes up to MaxSolveCalls calls of           *)
(* atSigmaFind.  sig < 0 asks for the default guess.                       *)
(***************************************************************************)
MaxSolveCalls == 2

Spike == Image("spike", 5000, 100)

Solve(im, x, y, sky, sig) == [img |-> im, x |-> x, y |-> y, sky |-> sky, sig |-> sig]

SolveInputs ==
    { Solve(Star15, 20, 18, 100, -1),       Solve(Star15, 18, 16, 100, 1000),
      Solve(Star15, 20, 18, 100, 1500),     Solve(Star07, 20, 18, 0, 1000),
      Solve(Star07, 20, 18, -55, 700),      Solve(Ramp, 5, 5, 0, 1000),
      Solve(Star15, 4, 18, 100, 1000),      Solve(Star15, 20, 18, 100, 12000),
      Solve(Flat(1000), 20, 18, 0, 1000),   Solve(Flat(1000), 20, 18, 1000, 1000),
      Solve(Spike, 20, 18, 100, 1000),      Solve(Star15, 20, 18, 100, 0),
      Solve(Star15, 20, 18, 100, 12001),    Solve(Star07, 20, 18, -55, 660) }

SolveCall == \E in \in SolveInputs : SigmaFindCall(1, in, MaxSolveCalls)

Next ==
    \/ SolveCall
    \/ SfSet(1)
    \/ SfFind(1)
    \/ FfmAttempt(1)
    \/ SfAfter(1)
    \/ Return(1)

Spec == Init /\ [][Next]_vars

\* thread t called atSigmaFind, which has returned
SolveReturned(t) ==
    fr[t].pc = "done" /\ fr[t].op = "atSigmaFind"

(***************************************************************************)
(* C2 as stated: a call of atFindFocMom that stops at the retry limit of   *)
(* 15 returns a code different from the one for a centre too close to an   *)
(* edge (-1), and atSigmaFind reports it as -3, not as -4.                 *)
(***************************************************************************)
C2_LimitIsIterationLimit ==
    \A t \in Threads :
      fr[t].att.out = "limit" =>
        /\ fr[t].att.status # -1
        /\ SolveReturned(t) => fr[t].status = -3

(***************************************************************************)
(* C2 amended: when the retry counter reaches 15 atFindFocMom returns -1,  *)
(* the code it also returns for a centre too close to an edge, and         *)
(* atSigmaFind reports both as -4; atSigmaFind returns -3 only after ten   *)
(* iterations of its own loop.                                             *)
(***************************************************************************)
C2_LimitIsEdgeCode ==
    \A t \in Threads :
      LET f == fr[t]
          a == f.att
      IN  /\ a.out = "limit" => a.ret0 = 15 /\ f.moves = 15 /\ a.status = -1
          /\ a.out = "edge" => a.ret0 < 15 /\ a.status = -1
          /\ SolveReturned(t) /\ f.nfind > 0 /\ a.out \in {"limit", "edge"} =>
                f.status = -4 /\ f.err = -1
          /\ SolveReturned(t) /\ f.status = -4 => a.out \in {"limit", "edge"}
          /\ SolveReturned(t) /\ f.status = -3 => f.i = 10 /\ a.out = "ok"

\* C2's case: atSigmaFind has returned -4 after fifteen relocations
C2_Witness ==
    /\ SolveReturned(1)
    /\ fr[1].att.out = "limit" /\ fr[1].moves = 15
    /\ fr[1].status = -4

(***************************************************************************)
(* C5: atSigmaFind calls atSetFSigma and atFindFocMom at most 10 times     *)
(* each; it returns 0 only if in its last iteration the four moments were  *)
(* strictly inside (-1, 1) and |xmom + ymom| < 0.01 or twice the change of *)
(* sigma was below 0.01; moments outside (-1, 1) give -2 whatever the      *)
(* convergence tests say; it returns -3 exactly when the tenth iteration   *)
(* ends with no error and neither test passing.                            *)
(***************************************************************************)
C5_SolverLoop ==
    \A t \in Threads :
      LET f      == fr[t]
          inside == \A m \in {f.ps.g_xmom, f.ps.g_ymom, f.ps.g_pmom, f.ps.g_mmom} :
                      -MomScale < m /\ m < MomScale
          momOK  == 100 * Abs(f.ps.g_xmom + f.ps.g_ymom) < MomScale
          sigOK  == 200 * Abs(f.sigold - f.sig) < SigScale
      IN  f.op = "atSigmaFind" =>
            /\ f.nset <= 10 /\ f.nfind <= 10 /\ f.nfind <= f.nset
            /\ f.pc = "done" =>
                  /\ f.status = 0 =>
                        /\ f.nfind >= 1 /\ f.err >= 0 /\ inside
                        /\ f.conv \in {"mom", "sig"}
                        /\ f.conv = "mom" => momOK
                        /\ f.conv = "sig" => sigOK
                  /\ f.nfind >= 1 /\ f.err >= 0 /\ ~inside => f.status = -2
                  /\ f.status = -2 => f.nfind >= 1 /\ f.err >= 0 /\ ~inside
                  /\ f.status = -3 <=>
                        /\ f.nfind = 10 /\ f.err >= 0 /\ inside
                        /\ ~momOK /\ ~sigOK

\* C5's case: ten iterations without error or convergence, answered -3
C5_Witness ==
    /\ SolveReturned(1)
    /\ fr[1].status = -3 /\ fr[1].nset = 10 /\ fr[1].nfind = 10

(***************************************************************************)
(* C11 as stated: whenever atSigmaFind returns 0, the sigma it leaves in   *)
(* *sig equals the cached sigmagen, on both convergence exits.             *)
(***************************************************************************)
C11_SigIsSigmagen ==
    \A t \in Threads :
      SolveReturned(t) /\ fr[t].status = 0 => fr[t].sig = sigmagen

(***************************************************************************)
(* C11 amended: when atSigmaFind returns 0 the moments were computed with  *)
(* the filter of sigmagen, the sigma of the last iteration (sigold).  On   *)
(* the exit |xmom + ymom| < 0.01, *sig is that sigma; on the exit for a    *)
(* small change of sigma, *sig has been updated after the filter was       *)
(* generated and is within 0.005 of sigmagen, not necessarily equal.       *)
(***************************************************************************)
C11_SigNearSigmagen ==
    \A t \in Threads :
      SolveReturned(t) /\ fr[t].status = 0 =>
        /\ sigmagen = fr[t].sigold
        /\ fr[t].kgen = sigmagen /\ fr[t].ksig = sigmagen
        /\ KernelFor(Cache, sigmagen)
        /\ fr[t].conv = "mom" => fr[t].sig = sigmagen
        /\ fr[t].conv = "sig" => 200 * Abs(fr[t].sig - sigmagen) < SigScale

\* C11's case: returned 0 by the small-change exit with *sig moved off the
\* sigma of the cached filter
C11_Witness ==
    /\ SolveReturned(1)
    /\ fr[1].status = 0 /\ fr[1].conv = "sig"
    /\ fr[1].sig # sigmagen

(***************************************************************************)
(* Two callers of atSigmaFind.  The functions hold no lock: unless the     *)
(* callers are serialized from outside, the calls one invocation makes     *)
(* (atSetFSigma, atFindFocMom and its attempts) interleave with the        *)
(* other's.                                                                *)
(***************************************************************************)
MaxConcCalls == 2

\* caller 1 measures a star, caller 2 works on other buffers with other sigmas
ConcInputs(t) ==
    IF t = 1 THEN { Solve(Star15, 20, 18, 100, 1500) }
    ELSE { Solve(Flat(1000), 20, 18, 0, 1000), Solve(Star15, 4, 18, 100, 2000) }

ConcCall(t) == \E in \in ConcInputs(t) : SigmaFindCall(t, in, MaxConcCalls)

NextConc ==
    \E t \in Threads :
      \/ ConcCall(t)
      \/ SfSet(t)
      \/ SfFind(t)
      \/ FfmAttempt(t)
      \/ SfAfter(t)
      \/ Return(t)

SpecConc == InitConc /\ [][NextConc]_vars

\* atFindFocMom, called by t's atSigmaFind, has made an attempt that
\* evaluated moments
Evaluated(t) ==
    fr[t].op = "atSigmaFind" /\ fr[t].att.evals > 0

(***************************************************************************)
(* C6: when the two invocations are serialized from outside, every         *)
(* attempt of atFindFocMom evaluates moments with the cache generated for  *)
(* its own invocation's current sigma; when their steps interleave and     *)
(* their sigmas differ, an invocation can evaluate moments with the filter *)
(* generated for the other's sigma (the state C6_Witness).                 *)
(***************************************************************************)
C6_SerializedOwnKernel ==
    \A t \in Threads :
      serial =>
        /\ fr[t].pc \in {"sffind", "start"} =>
              sigmagen = fr[t].sig /\ KernelFor(Cache, fr[t].sig)
        /\ Evaluated(t) => fr[t].kgen = fr[t].ksig

\* C6's case: not serialized, caller 1 evaluated moments for its own sigma
\* with the filter generated for caller 2's different sigma
C6_Witness ==
    /\ ~serial
    /\ Evaluated(1) /\ fr[2].op = "atSigmaFind"
    /\ fr[1].kgen # fr[1].ksig
    /\ fr[1].kgen = fr[2].sig
    /\ sig_ncut = NcutOf(fr[2].sig)

(***************************************************************************)
(* Two callers of atSetFSigma, statement by statement.                     *)
(***************************************************************************)
MaxAtomicCalls == 2

AtomicSigmas == {250, 500}

AtomicCall(t) == \E s \in AtomicSigmas : SetEnter(t, s, MaxAtomicCalls)

NextAtomic ==
    \E t \in Threads :
      \/ AtomicCall(t)
      \/ SetCheck(t)
      \/ SetSigma(t)
      \/ SetLength(t)
      \/ SetTapStep(t)
      \/ SetZero(t)
      \/ Return(t)

SpecAtomic == InitConc /\ [][NextAtomic]_vars

(***************************************************************************)
(* C7 as stated: atSetFSigma replaces the cached filter and the cached     *)
(* sigma together, after the full computation: no caller reads a cached    *)
(* sigma equal to the sigma it asks for while sig_ncut or a tap is still   *)
(* the previous filter's, so a call that returns 0 by the 'already done'   *)
(* shortcut finds the filter of its sigma complete.                        *)
(***************************************************************************)
C7_AtomicReplace ==
    \A t \in Threads :
      fr[t].op = "atSetFSigma" /\ fr[t].pc = "done" /\ fr[t].shortcut =>
        fr[t].complete
====
